---- MODULE Spec2Model ----
(***************************************************************************)
(* Model of the cf4ocl event plotting scripts, scripts/ccl_plot_events.py  *)
(* and its predecessor scripts/plot_events.py.  Both are straight-line     *)
(* Python 2 scripts: every statement group of the script is one action,    *)
(* and pc is the position of the interpreter in the script.                *)
(*                                                                         *)
(* Vertical coordinates are kept in tenths (y = index - 0.4 is 10*index-4) *)
(* so that the model stays within the integers.  A colour is the index of  *)
(* the colormap's lookup table the script hands to cmap().                 *)
(***************************************************************************)
EXTENDS Integers, Sequences, FiniteSets, TLC

\* ------------------------------------------------------------------ bounds
MaxRecs == 2
NumQueues == 2
NumEvts == 2

\* ------------------------------------------------------- program constants
\* pylab.cm.get_cmap('spectral').N : size of the colormap's lookup table
cmap_N == 256
\* y = queues.index(...) - 0.4, in tenths
BarOffset10 == 4
\* height 0.8 of patches.Rectangle, in tenths
BarHeight10 == 8
\* the -0.5 of plt.axis([..., -0.5, num_queues - 0.5]), in tenths
AxisMargin10 == 5
\* exit(-1), exit(0), exit(-2) of the argument check
ExitUsage == -1
ExitVersion == 0
ExitNotFound == -2
\* status of an interpreter that died of an uncaught exception
ExitTraceback == 1

\* ------------------------------------------------------------------ inputs
QueueIds == 1..NumQueues
EvtNames == 1..NumEvts
\* (t_start, t_end) of a line: longer, empty and inverted intervals
Intervals == {<<0, 2>>, <<1, 1>>, <<1, 0>>}

Line == [queue : QueueIds, t_start : {0, 1}, t_end : {0, 1, 2}, event : EvtNames]

Lines == {l \in Line : <<l.t_start, l.t_end>> \in Intervals}

\* A file: its lines, and the number of the one line (0: none) that has only
\* three fields.  A three-field line is considered among at least two lines.
Files ==
    {[lines |-> s, bad |-> b] :
        s \in UNION {[1..n -> Lines] : n \in 0..MaxRecs},
        b \in 0..MaxRecs}

ValidFiles == {f \in Files : f.bad = 0 \/ (Len(f.lines) >= 2 /\ f.bad <= Len(f.lines))}

Scripts == {"ccl_plot_events.py", "plot_events.py"}

Argvs == {<<>>, <<"--version">>, <<"prof.tsv">>}

VARIABLES
    script,       \* which of the two scripts runs
    argv,         \* sys.argv[1:]
    isfile,       \* os.path.isfile(sys.argv[1])
    file,         \* content of the file sys.argv[1] names
    pc,           \* position in the script
    stdout,       \* messages printed
    exit_code,    \* exit status, meaningful when pc = "done"
    error,        \* statement that raised the uncaught exception, or "none"
    file_read,    \* genfromtxt has opened the file
    pdat,         \* result of numpy.genfromtxt
    queues,       \* numpy.unique(pdat['queue']).tolist()
    uniq_evts,    \* numpy.unique(pdat['event']).tolist()
    uniq_colors,  \* colormap index of each event name
    handles,      \* legend handles (face colours)
    drawn,        \* drawing operations performed so far, in order
    axis,         \* plt.axis bounds: <<xmin, xmax, ymin10, ymax10>>
    yticks,       \* plt.yticks: [pos, labels]
    rects,        \* rectangles added to the axes
    legend        \* plt.legend: sequence of [label, color]

vars == <<script, argv, isfile, file, pc, stdout, exit_code, error, file_read,
          pdat, queues, uniq_evts, uniq_colors, handles, drawn, axis, yticks,
          rects, legend>>

\* ----------------------------------------------------------------- helpers
Range(s) == {s[i] : i \in DOMAIN s}

Column(rows, name) == [i \in DOMAIN rows |-> rows[i][name]]

SetMin(S) == CHOOSE m \in S : \A x \in S : m <= x

SetMax(S) == CHOOSE m \in S : \A x \in S : x <= m

RECURSIVE SortedSeq(_)
SortedSeq(S) ==
    IF S = {} THEN <<>>
    ELSE LET m == SetMin(S) IN <<m>> \o SortedSeq(S \ {m})

\* numpy.unique(col).tolist(): the distinct values, ascending
unique(col) == SortedSeq(Range(col))

\* list.index(v), zero based; -1 stands for the ValueError of a missing value
index(s, v) ==
    IF \E i \in DOMAIN s : s[i] = v
    THEN SetMin({i \in DOMAIN s : s[i] = v}) - 1
    ELSE -1

\* builtin min and max over a column
min(col) == SetMin(Range(col))

\* the end of the last event taken for the latest end
max_LastEvent(col) == col[Len(col)]

max(col) == SetMax(Range(col))

\* range(n) as a list
range(n) == [i \in 1..n |-> i - 1]

\* an empty file taken to give an empty array of four-field records
genfromtxt_EmptyRecords(f) ==
    [shape |-> IF Len(f.lines) = 1 THEN "0d" ELSE "1d",
     rows |-> f.lines]

\* numpy.genfromtxt on a file whose lines all have four fields: no line gives
\* an array without fields, one line is squeezed to a 0-d array, more lines
\* give a 1-d array of records.
genfromtxt(f) ==
    [shape |-> IF Len(f.lines) = 0 THEN "nofields"
               ELSE IF Len(f.lines) = 1 THEN "0d" ELSE "1d",
     rows |-> f.lines]

NoData == [shape |-> "unset", rows |-> <<>>]

\* the sample points counted from 1 instead of from 0
ColorIndexes_FromOne(num_uniq_evts) ==
    [i \in 1..num_uniq_evts |-> (i * cmap_N) \div num_uniq_evts]

\* [x*cmap.N/num_uniq_evts for x in range(num_uniq_evts)], integer division
ColorIndexes(num_uniq_evts) ==
    [i \in 1..num_uniq_evts |-> (range(num_uniq_evts)[i] * cmap_N) \div num_uniq_evts]

\* cmap(uniq_colors[uei]) for the event name ev
ColorOf(evts, colors, ev) == colors[index(evts, ev) + 1]

\* the bar drawn upwards from the row's centre line, the 0.4 forgotten
Rectangle_OnCentre(qs, evts, colors, event) ==
    [x |-> event.t_start,
     y10 |-> 10 * index(qs, event.queue),
     width |-> event.t_end - event.t_start,
     height10 |-> BarHeight10,
     color |-> ColorOf(evts, colors, event.event)]

\* the rectangle of one event of pdat
Rectangle(qs, evts, colors, event) ==
    [x |-> event.t_start,
     y10 |-> 10 * index(qs, event.queue) - BarOffset10,
     width |-> event.t_end - event.t_start,
     height10 |-> BarHeight10,
     color |-> ColorOf(evts, colors, event.event)]

Did(op) == \E i \in DOMAIN drawn : drawn[i] = op

\* an uncaught exception at statement st ends the interpreter
Raise(st) ==
    /\ pc' = "done"
    /\ error' = st
    /\ exit_code' = ExitTraceback

\* ------------------------------------------------------------------- Init
Init ==
    /\ script \in Scripts
    /\ argv \in Argvs
    /\ isfile \in BOOLEAN
    /\ file \in ValidFiles
    /\ (~isfile \/ argv = <<>>) => file = [lines |-> <<>>, bad |-> 0]
    /\ pc = IF script = "ccl_plot_events.py" THEN "args" ELSE "load"
    /\ stdout = <<>>
    /\ exit_code = 0
    /\ error = "none"
    /\ file_read = FALSE
    /\ pdat = NoData
    /\ queues = <<>>
    /\ uniq_evts = <<>>
    /\ uniq_colors = <<>>
    /\ handles = <<>>
    /\ drawn = <<>>
    /\ axis = <<>>
    /\ yticks = [pos |-> <<>>, labels |-> <<>>]
    /\ rects = <<>>
    /\ legend = <<>>

\* ---------------------------------------------------------------- actions
\* the argument check with the file test ahead of the '--version' test
CheckArgs_FileFirst ==
    /\ pc = "args"
    /\ IF Len(argv) < 1
       THEN /\ stdout' = Append(stdout, "usage")
            /\ exit_code' = ExitUsage
            /\ pc' = "done"
       ELSE IF ~isfile
       THEN /\ stdout' = Append(stdout, "notfound")
            /\ exit_code' = ExitNotFound
            /\ pc' = "done"
       ELSE IF argv[1] = "--version"
       THEN /\ stdout' = Append(stdout, "version")
            /\ exit_code' = ExitVersion
            /\ pc' = "done"
       ELSE /\ pc' = "load"
            /\ UNCHANGED <<stdout, exit_code>>
    /\ UNCHANGED <<script, argv, isfile, file, error, file_read, pdat, queues,
                   uniq_evts, uniq_colors, handles, drawn, axis, yticks, rects,
                   legend>>

\* ccl_plot_events.py: "Check command-line arguments"
CheckArgs ==
    /\ pc = "args"
    /\ IF Len(argv) < 1
       THEN /\ stdout' = Append(stdout, "usage")
            /\ exit_code' = ExitUsage
            /\ pc' = "done"
       ELSE IF argv[1] = "--version"
       THEN /\ stdout' = Append(stdout, "version")
            /\ exit_code' = ExitVersion
            /\ pc' = "done"
       ELSE IF ~isfile
       THEN /\ stdout' = Append(stdout, "notfound")
            /\ exit_code' = ExitNotFound
            /\ pc' = "done"
       ELSE /\ pc' = "load"
            /\ UNCHANGED <<stdout, exit_code>>
    /\ UNCHANGED <<script, argv, isfile, file, error, file_read, pdat, queues,
                   uniq_evts, uniq_colors, handles, drawn, axis, yticks, rects,
                   legend>>

\* pdat = numpy.genfromtxt(sys.argv[1], ...)
Load ==
    /\ pc = "load"
    /\ IF Len(argv) < 1 \/ ~isfile
       THEN \* IndexError of sys.argv[1], IOError of the missing file
            /\ Raise("load")
            /\ UNCHANGED <<file_read, pdat>>
       ELSE IF file.bad # 0
       THEN \* ValueError: a line with three columns instead of four
            /\ Raise("load")
            /\ file_read' = TRUE
            /\ UNCHANGED pdat
       ELSE /\ pdat' = genfromtxt(file)
            /\ file_read' = TRUE
            /\ pc' = "queues"
            /\ UNCHANGED <<error, exit_code>>
    /\ UNCHANGED <<script, argv, isfile, file, stdout, queues, uniq_evts,
                   uniq_colors, handles, drawn, axis, yticks, rects, legend>>

\* queues = numpy.unique(pdat['queue']).tolist()
GetQueues ==
    /\ pc = "queues"
    /\ IF pdat.shape = "nofields"
       THEN \* the array of an empty file has no field 'queue'
            /\ Raise("queues")
            /\ UNCHANGED queues
       ELSE /\ queues' = unique(Column(pdat.rows, "queue"))
            /\ pc' = "figure"
            /\ UNCHANGED <<error, exit_code>>
    /\ UNCHANGED <<script, argv, isfile, file, stdout, file_read, pdat,
                   uniq_evts, uniq_colors, handles, drawn, axis, yticks, rects,
                   legend>>

\* plt.figure(); plt.axes(...); plt.grid(True, axis='x')
CreateFigure ==
    /\ pc = "figure"
    /\ drawn' = drawn \o <<"figure", "axes", "grid">>
    /\ pc' = "axis"
    /\ UNCHANGED <<script, argv, isfile, file, stdout, exit_code, error,
                   file_read, pdat, queues, uniq_evts, uniq_colors, handles,
                   axis, yticks, rects, legend>>

\* plt.axis([min(pdat['t_start']), max(pdat['t_end']), -0.5, num_queues - 0.5])
SetAxis ==
    /\ pc = "axis"
    /\ IF pdat.shape = "0d" \/ Len(pdat.rows) = 0
       THEN \* TypeError: iteration over a 0-d array; ValueError: min() of
            \* an empty sequence
            /\ Raise("axis")
            /\ UNCHANGED <<axis, drawn>>
       ELSE /\ axis' = <<min(Column(pdat.rows, "t_start")),
                         max(Column(pdat.rows, "t_end")),
                         -AxisMargin10,
                         10 * Len(queues) - AxisMargin10>>
            /\ drawn' = Append(drawn, "axis")
            /\ pc' = "yticks"
            /\ UNCHANGED <<error, exit_code>>
    /\ UNCHANGED <<script, argv, isfile, file, stdout, file_read, pdat, queues,
                   uniq_evts, uniq_colors, handles, yticks, rects, legend>>

\* plt.yticks(range(num_queues), queues, size='small')
SetTicks ==
    /\ pc = "yticks"
    /\ yticks' = [pos |-> range(Len(queues)), labels |-> queues]
    /\ drawn' = Append(drawn, "yticks")
    /\ pc' = "evts"
    /\ UNCHANGED <<script, argv, isfile, file, stdout, exit_code, error,
                   file_read, pdat, queues, uniq_evts, uniq_colors, handles,
                   axis, rects, legend>>

\* uniq_evts = numpy.unique(pdat['event']).tolist(); cmap; uniq_colors
GetEvts ==
    /\ pc = "evts"
    /\ uniq_evts' = unique(Column(pdat.rows, "event"))
    /\ uniq_colors' = ColorIndexes(Len(uniq_evts'))
    /\ pc' = "handles"
    /\ UNCHANGED <<script, argv, isfile, file, stdout, exit_code, error,
                   file_read, pdat, queues, handles, drawn, axis, yticks,
                   rects, legend>>

\* the loop "for uniq_evt in uniq_evts" that fills handles
MakeHandles ==
    /\ pc = "handles"
    /\ handles' = [i \in DOMAIN uniq_evts |->
                      ColorOf(uniq_evts, uniq_colors, uniq_evts[i])]
    /\ pc' = IF Len(pdat.rows) = 0 THEN "legend" ELSE "plot"
    /\ UNCHANGED <<script, argv, isfile, file, stdout, exit_code, error,
                   file_read, pdat, queues, uniq_evts, uniq_colors, drawn,
                   axis, yticks, rects, legend>>

\* one iteration of the loop "for event in pdat"
PlotEvent ==
    /\ pc = "plot"
    /\ LET event == pdat.rows[Len(rects) + 1] IN
       IF index(queues, event.queue) = -1 \/ index(uniq_evts, event.event) = -1
       THEN \* ValueError of list.index
            /\ Raise("plot")
            /\ UNCHANGED <<rects, drawn>>
       ELSE /\ rects' = Append(rects, Rectangle(queues, uniq_evts, uniq_colors, event))
            /\ drawn' = Append(drawn, "patch")
            /\ pc' = IF Len(rects') = Len(pdat.rows) THEN "legend" ELSE "plot"
            /\ UNCHANGED <<error, exit_code>>
    /\ UNCHANGED <<script, argv, isfile, file, stdout, file_read, pdat, queues,
                   uniq_evts, uniq_colors, handles, axis, yticks, legend>>

\* plt.legend(handles, uniq_evts, ...)
AddLegend ==
    /\ pc = "legend"
    /\ legend' = [i \in 1..SetMin({Len(handles), Len(uniq_evts)}) |->
                     [label |-> uniq_evts[i], color |-> handles[i]]]
    /\ drawn' = Append(drawn, "legend")
    /\ pc' = "show"
    /\ UNCHANGED <<script, argv, isfile, file, stdout, exit_code, error,
                   file_read, pdat, queues, uniq_evts, uniq_colors, handles,
                   axis, yticks, rects>>

\* plt.ylabel('Queues'); plt.xlabel('Time'); plt.show()
Show ==
    /\ pc = "show"
    /\ drawn' = drawn \o <<"ylabel", "xlabel", "show">>
    /\ pc' = "done"
    /\ exit_code' = 0
    /\ UNCHANGED <<script, argv, isfile, file, stdout, error, file_read, pdat,
                   queues, uniq_evts, uniq_colors, handles, axis, yticks,
                   rects, legend>>

Next ==
    \/ CheckArgs
    \/ Load
    \/ GetQueues
    \/ CreateFigure
    \/ SetAxis
    \/ SetTicks
    \/ GetEvts
    \/ MakeHandles
    \/ PlotEvent
    \/ AddLegend
    \/ Show

Spec == Init /\ [][Next]_vars

\* ------------------------------------------------------------ type check
TypeOK ==
    /\ pc \in {"args", "load", "queues", "figure", "axis", "yticks", "evts",
               "handles", "plot", "legend", "show", "done"}
    /\ error \in {"none", "load", "queues", "axis", "plot"}
    /\ Len(rects) <= Len(pdat.rows)

\* ------------------------------------------------------- claim vocabulary
\* the script got as far as reading a file whose lines all have four fields
ValidRun == file_read /\ file.bad = 0

Finished == pc = "done"

Completed == Finished /\ error = "none" /\ Did("show")

\* the distinct values of a field over the lines of the input file
Distinct(name) == {file.lines[k][name] : k \in DOMAIN file.lines}

IsAscending(s) == \A i, j \in DOMAIN s : i < j => s[i] < s[j]

\* C1: for every input of at least one record the chart ends up with one
\* rectangle per record, in input order, the k-th with x = start of the k-th
\* record and width = end - start.
C1_RectanglePerRecord ==
    (Finished /\ ValidRun /\ Len(file.lines) >= 1) =>
        /\ Len(rects) = Len(file.lines)
        /\ \A k \in DOMAIN rects :
              /\ rects[k].x = file.lines[k].t_start
              /\ rects[k].width = file.lines[k].t_end - file.lines[k].t_start

\* C2: for any valid input file the Y tick labels are exactly the distinct
\* queue values, each once, ascending, at positions 0..len(queues)-1.
C2_TickLabels ==
    (Finished /\ ValidRun /\ Len(file.lines) >= 1) =>
        /\ Range(yticks.labels) = Distinct("queue")
        /\ Len(yticks.labels) = Cardinality(Distinct("queue"))
        /\ IsAscending(yticks.labels)
        /\ Len(yticks.pos) = Len(yticks.labels)
        /\ \A i \in DOMAIN yticks.pos : yticks.pos[i] = i - 1

\* C3: for any valid input file the legend has one entry per distinct event
\* type, in sorted order, and different entries have different colours when
\* the number of event types does not exceed cmap.N.
C3_LegendEntries ==
    (Finished /\ ValidRun /\ Len(file.lines) >= 1) =>
        /\ Len(legend) = Cardinality(Distinct("event"))
        /\ {legend[i].label : i \in DOMAIN legend} = Distinct("event")
        /\ IsAscending([i \in DOMAIN legend |-> legend[i].label])
        /\ Len(legend) <= cmap_N =>
              \A i, j \in DOMAIN legend : i # j => legend[i].color # legend[j].color

\* C4: a run either completes the chart or fails before any drawing
\* operation: no failure happens once a figure, axes, grid, tick or rectangle
\* exists.
C4_FailBeforeDrawing ==
    /\ error # "none" => drawn = <<>>
    /\ (Finished /\ error = "none" /\ drawn # <<>>) => Completed

C6_SingleRecordChart ==
    (Finished /\ ValidRun /\ Len(file.lines) = 1) =>
        /\ Completed
        /\ Len(yticks.labels) = 1
        /\ Len(legend) = 1
        /\ Len(rects) = 1
        /\ rects[1].width = file.lines[1].t_end - file.lines[1].t_start

\* C7: with no record the run ends with the exception of the domain
\* resolution step, before the axis bounds and before the colours are
\* computed, and no chart exists.
C7_EmptyInput ==
    (Finished /\ ValidRun /\ Len(file.lines) = 0) =>
        /\ error = "queues"
        /\ axis = <<>>
        /\ uniq_colors = <<>>
        /\ drawn = <<>>
        /\ ~Completed

C7_Witness ==
    /\ Finished
    /\ ValidRun
    /\ Len(file.lines) = 0
    /\ error = "queues"
    /\ script = "ccl_plot_events.py"

\* C8: the rectangle of every record sits on the row of the record's queue
\* (y = rowIndex - 0.4, height 0.8), has the legend colour of the record's
\* event type, and the lookups of queue and event type never fail.
C8_RowAndColor ==
    /\ error # "plot"
    /\ \A k \in DOMAIN rects :
          /\ \E r \in 0..(Len(queues) - 1) :
                /\ queues[r + 1] = pdat.rows[k].queue
                /\ 10 * rects[k].y10 = 10 * (10 * r) - 40
          /\ 10 * rects[k].height10 = 80
          /\ \E i \in DOMAIN uniq_evts :
                /\ uniq_evts[i] = pdat.rows[k].event
                /\ i \in DOMAIN handles
                /\ rects[k].color = handles[i]
    /\ \A i \in DOMAIN legend : \A k \in DOMAIN rects :
          legend[i].label = pdat.rows[k].event => legend[i].color = rects[k].color

\* rectangles on two rows, of two event types, under the finished legend
C8_Witness ==
    /\ Len(rects) >= 2
    /\ rects[1].y10 # rects[2].y10
    /\ rects[1].color # rects[2].color
    /\ pdat.rows[1].queue > pdat.rows[2].queue
    /\ Len(legend) = 2

\* C9: with N >= 1 event types the colour of eventTypes[i] is colormap entry
\* floor(i*P/N), i in 0..N-1, an entry within 0..P-1 that depends on N and i
\* only.
C9_ColorSampling ==
    (pc \in {"handles", "plot", "legend", "show"} \/ Completed) =>
        /\ Len(uniq_evts) >= 1
        /\ Len(uniq_colors) = Len(uniq_evts)
        /\ \A i \in 0..(Len(uniq_evts) - 1) :
              LET c == uniq_colors[i + 1] IN
              /\ c * Len(uniq_evts) <= i * cmap_N
              /\ i * cmap_N < (c + 1) * Len(uniq_evts)
              /\ c \in 0..(cmap_N - 1)

C9_Witness ==
    /\ Completed
    /\ Len(uniq_evts) = 2
    /\ uniq_colors = <<0, 128>>

\* C10: when every record has end >= start, every rectangle lies inside the
\* axis bounds and strictly inside the row band of its queue, so rectangles of
\* two queues never overlap vertically.
C10_InsideBounds ==
    (\A k \in DOMAIN pdat.rows : pdat.rows[k].t_end >= pdat.rows[k].t_start) =>
        /\ \A k \in DOMAIN rects :
              /\ Len(axis) = 4
              /\ axis[1] <= rects[k].x
              /\ rects[k].x + rects[k].width <= axis[2]
              /\ axis[3] <= rects[k].y10
              /\ rects[k].y10 + rects[k].height10 <= axis[4]
              /\ \E r \in 0..(Len(queues) - 1) :
                    /\ queues[r + 1] = pdat.rows[k].queue
                    /\ 10 * r - 5 < rects[k].y10
                    /\ rects[k].y10 + rects[k].height10 < 10 * r + 5
        /\ \A k, j \in DOMAIN rects :
              pdat.rows[k].queue # pdat.rows[j].queue =>
                 \/ rects[k].y10 + rects[k].height10 < rects[j].y10
                 \/ rects[j].y10 + rects[j].height10 < rects[k].y10

\* two rectangles of two queues, the first running from the left to the right
\* axis bound
C10_Witness ==
    /\ Completed
    /\ Len(rects) = 2
    /\ pdat.rows[1].queue # pdat.rows[2].queue
    /\ \A k \in DOMAIN pdat.rows : pdat.rows[k].t_end >= pdat.rows[k].t_start
    /\ rects[1].width = 2
    /\ rects[2].width = 0

====
